---- MODULE Spec2Model ----
(***************************************************************************)
(* Workflow orchestrator of the agentic onboarding platform                *)
(* (src/orchestration/orchestrator.py, class AgenticOrchestrator).         *)
(*                                                                         *)
(* State: the two persisted tables WORKFLOW_EXECUTIONS and                 *)
(* AGENT_EXECUTION_LOG, the AGENT_METRICS stream, and for every            *)
(* orchestrator instance its fields (workflow_id, agent_sequence) and the  *)
(* position and locals of the call of execute_onboarding_workflow it is    *)
(* in.  One action per SQL statement or external call; the local code      *)
(* that follows a statement belongs to that statement's action.            *)
(***************************************************************************)
EXTENDS Integers, Sequences, FiniteSets, TLC

\* ---- bounds of the model ------------------------------------------------
MaxRuns == 2     \* calls of execute_onboarding_workflow in one behaviour
MaxLen == 2      \* characters in the text of a collaborator payload

\* ---- fixed sets -----------------------------------------------------------
Procs == {"A", "B"}       \* orchestrator instances (B only runs concurrently)
WorkflowTypes == {"ONBOARDING", "PROFILING_ONLY", "MAPPING_ONLY", "BOGUS"}
KnownTypes == {"ONBOARDING", "PROFILING_ONLY", "MAPPING_ONLY"}
SupportedTypes == {"ONBOARDING", "PROFILING_ONLY"}
Terminal == {"COMPLETED", "FAILED"}
\* what one call of a collaborator procedure can do
CollabOutcomes == {"OK", "FAILED_PAYLOAD", "RAISE"}
FailedOutcomes == {"FAILED_PAYLOAD", "RAISE"}
\* the external services whose statements can fail: the execution log, the
\* metrics stream, the AI summary call, the WORKFLOW_EXECUTIONS table, and of
\* that table the UPDATE of _complete_workflow alone
Sinks == {"log", "metrics", "summary", "wf", "complete"}
\* clock units one collaborator call can take
Latencies == {0, 1}
\* the characters of a payload text: a letter, a single quote, a double
\* quote; a backslash only appears in encoded text
Chars == {"a", "SQ", "DQ"}
PlainText == <<"a">>
\* the texts a collaborator payload can carry
Payloads == UNION {[1..n -> Chars] : n \in 1..MaxLen}

VARIABLES
    workflows,       \* WORKFLOW_EXECUTIONS, in insertion (START_TIME) order
    executions,      \* AGENT_EXECUTION_LOG, in insertion (START_TIME) order
    metrics,         \* AGENT_METRICS, one entry per metrics INSERT
    now,             \* the clock (datetime.now(), CURRENT_TIMESTAMP())
    pc,              \* per instance: the statement its call is about to run
    workflow_id,     \* per instance: self.workflow_id (0 = None)
    agent_sequence,  \* per instance: self.agent_sequence
    frame,           \* per instance: the locals of the call in progress
    run,             \* per instance: history of the call in progress
    done,            \* the calls that have returned or raised, in order
    concurrent,      \* may calls of different instances overlap
    faulty,          \* the sinks whose statements may fail
    latency,         \* clock units a collaborator call takes
    texts,           \* the payload texts the collaborators may return
    reply            \* what the last query operation gave its caller

vars == <<workflows, executions, metrics, now, pc, workflow_id,
          agent_sequence, frame, run, done, concurrent, faulty, latency,
          texts, reply>>

\* ---- values ---------------------------------------------------------------
\* an exception in flight, or an ERROR_MESSAGE column (msg "NULL" = none)
NoExc == [step |-> "NONE", msg |-> "NULL"]
LogExc == [step |-> "NONE", msg |-> "log write error"]
WfExc == [step |-> "NONE", msg |-> "workflow write error"]
NoRowExc == [step |-> "NONE", msg |-> "list index out of range"]
ValueError == [step |-> "NONE", msg |-> "Unknown workflow type"]
NotImplementedError ==
    [step |-> "NONE",
     msg |-> "MAPPING_ONLY workflow requires existing dictionary results"]

\* the dict _execute_agent hands back: a collaborator payload or the FAILED dict
NoResult == [status |-> "NONE", error |-> "NULL"]
OkPayload == [status |-> "OK", error |-> "NULL"]
FailedPayload == [status |-> "FAILED", error |-> "agent error"]
\* variant of the dict below without the FAILED status
FailedResultWithoutStatus(e) == [status |-> "NONE", error |-> e.msg]
FailedResult(e) == [status |-> "FAILED", error |-> e.msg]

\* raise Exception(f"<Agent> agent failed: {result.get('error')}")
AgentFailed(agent, result) == [step |-> agent, msg |-> result.error]

\* workflow_results['summary']: the AI text, or the templated fallback built
\* from len(agents_executed)
NoSummary == [kind |-> "NONE", agents |-> 0]

\* no query operation has been called since the last call began
NoReply == [op |-> "NONE", arg |-> 0, tail |-> <<>>, result |-> <<>>]

IdleFrame ==
    [workflow_type |-> "NONE", wid |-> 0, agent_name |-> "NONE",
     execution_id |-> 0, wf_start |-> 0, start_time |-> 0,
     result |-> NoResult, duration |-> 0, outcome |-> "NONE", e |-> NoExc,
     agents_executed |-> <<>>, total_duration |-> 0, summary |-> NoSummary,
     input |-> <<>>, text |-> <<>>, inserted |-> 0]

IdleRun ==
    [rec |-> 0, before |-> <<>>, fresh |-> FALSE, calls |-> <<>>,
     results |-> <<>>, faults |-> {}, execRaised |-> FALSE]

\* the row INSERTed by _initialize_workflow; -1 and <<>> stand for NULL
NewWorkflowRow(wt, t) ==
    [workflow_type |-> wt, status |-> "INITIATED", start_time |-> t,
     end_time |-> -1, duration |-> -1, agent_sequence |-> <<>>,
     error_message |-> NoExc]

\* the row INSERTed by _execute_agent; updates counts the UPDATE statements
\* that have been applied to the row since
NewExecutionRow(wid, agent, t) ==
    [workflow_id |-> wid, agent_name |-> agent, status |-> "RUNNING",
     start_time |-> t, duration |-> -1, error_message |-> "NULL",
     output |-> "NULL", updates |-> 0]

\* ---- queries ---------------------------------------------------------------
Max(S) == CHOOSE x \in S : \A y \in S : y <= x

\* variant of the query below without the STATUS filter and without DESC
LatestInitiatedOldestFirst(wf) ==
    IF wf = <<>> THEN 0 ELSE 1

\* SELECT WORKFLOW_ID ... WHERE STATUS = 'INITIATED'
\* ORDER BY START_TIME DESC LIMIT 1  (0: the result set is empty)
LatestInitiated(wf) ==
    LET S == {i \in DOMAIN wf : wf[i].status = "INITIATED"}
    IN  IF S = {} THEN 0 ELSE Max(S)

\* SELECT EXECUTION_ID ... WHERE WORKFLOW_ID = .. AND AGENT_NAME = ..
\* ORDER BY START_TIME DESC LIMIT 1  (0: the result set is empty)
LatestExecution(ex, wid, agent) ==
    LET S == {i \in DOMAIN ex :
                ex[i].workflow_id = wid /\ ex[i].agent_name = agent}
    IN  IF S = {} THEN 0 ELSE Max(S)

\* UPDATE ... WHERE <key> = id: no row matches an id that is not in the table
UpdateRow(table, id, row) ==
    IF id \in DOMAIN table THEN [table EXCEPT ![id] = row] ELSE table

\* ---- texts on the way to a collaborator ------------------------------------
\* the result of reading a text: the text read, or a failure
Read(t) == [ok |-> TRUE, text |-> t]
Malformed == [ok |-> FALSE, text |-> <<>>]
Cons(c, r) == IF r.ok THEN Read(<<c>> \o r.text) ELSE r

\* json.dumps(result, default=str) on the text of a result: a double quote
\* and a backslash are escaped with a backslash, nothing else is
RECURSIVE JsonDumps(_)
JsonDumps(t) ==
    IF t = <<>> THEN <<>>
    ELSE (IF Head(t) \in {"DQ", "BS"} THEN <<"BS", Head(t)>> ELSE <<Head(t)>>)
             \o JsonDumps(Tail(t))

\* str.replace("'", "''"): every single quote is doubled
RECURSIVE EscapeQuotes(_)
EscapeQuotes(t) ==
    IF t = <<>> THEN <<>>
    ELSE (IF Head(t) = "SQ" THEN <<"SQ", "SQ">> ELSE <<Head(t)>>)
             \o EscapeQuotes(Tail(t))

\* _call_agent_procedure puts a str parameter between single quotes as it is
\* (f"'{value}'"); this is the value the SQL engine reads from that literal:
\* a backslash escapes the character after it, two single quotes are one,
\* and a single quote on its own ends the literal, which leaves a statement
\* that does not compile
RECURSIVE SqlLiteral(_)
SqlLiteral(t) ==
    IF t = <<>> THEN Read(<<>>)
    ELSE IF Head(t) = "BS"
    THEN IF Len(t) = 1 THEN Malformed
         ELSE Cons(t[2], SqlLiteral(SubSeq(t, 3, Len(t))))
    ELSE IF Head(t) = "SQ"
    THEN IF Len(t) >= 2 /\ t[2] = "SQ"
         THEN Cons("SQ", SqlLiteral(SubSeq(t, 3, Len(t))))
         ELSE Malformed
    ELSE Cons(Head(t), SqlLiteral(Tail(t)))

\* json.loads in the collaborator's wrapper, on the text of a string: the
\* inverse of JsonDumps; a bare double quote or any other escape is an error
RECURSIVE JsonLoads(_)
JsonLoads(t) ==
    IF t = <<>> THEN Read(<<>>)
    ELSE IF Head(t) = "BS"
    THEN IF Len(t) >= 2 /\ t[2] \in {"DQ", "BS"}
         THEN Cons(t[2], JsonLoads(SubSeq(t, 3, Len(t))))
         ELSE Malformed
    ELSE IF Head(t) = "DQ" THEN Malformed
    ELSE Cons(Head(t), JsonLoads(Tail(t)))

\* what the collaborator reads from the CALL statement built for an agent:
\* PROFILING gets the stage path, the two others the JSON of the result
\* before them
Received(agent, input) ==
    IF agent = "PROFILING" THEN Read(<<>>) ELSE SqlLiteral(JsonDumps(input))

\* the result the collaborator's wrapper works on: json.loads of the
\* parameter it received
Loaded(agent, input) ==
    LET r == Received(agent, input)
    IN  IF agent = "PROFILING" \/ ~r.ok THEN r ELSE JsonLoads(r.text)

\* OUTPUT_RESULT = PARSE_JSON('<json.dumps(result) with quotes doubled>'):
\* the UPDATE succeeds only if the literal reads as JSON
OutputStored(t) ==
    LET r == SqlLiteral(EscapeQuotes(JsonDumps(t)))
    IN  r.ok /\ JsonLoads(r.text).ok

\* ---- fault choices ---------------------------------------------------------
\* a statement on a sink succeeds, or fails if the sink is a faulty one
Oks(sink) == IF sink \in faulty THEN BOOLEAN ELSE {TRUE}

Running == {q \in Procs : pc[q] # "idle"}
ActiveProcs == IF concurrent THEN Procs ELSE {"A"}
MayStart(p) ==
    /\ p \in ActiveProcs
    /\ pc[p] = "idle"
    /\ Len(done) + Cardinality(Running) < MaxRuns
    /\ concurrent \/ Running = {}

\* the call of execute_onboarding_workflow ends: it returns, or raises e;
\* f and r are its locals and its history, wf the table it leaves behind
Finish(p, f, r, outcome, e, wf) ==
    /\ done' = Append(done,
          [inst |-> p, wtype |-> f.workflow_type, fresh |-> r.fresh,
           rec |-> r.rec, wid |-> f.wid, calls |-> r.calls,
           results |-> r.results, faults |-> r.faults,
           execRaised |-> r.execRaised, changed |-> (wf # r.before),
           outcome |-> outcome, error |-> e, summary |-> f.summary])
    /\ pc' = [pc EXCEPT ![p] = "idle"]
    /\ frame' = [frame EXCEPT ![p] = IdleFrame]
    /\ run' = [run EXCEPT ![p] = IdleRun]

\* an exception leaves _execute_agent or the controller inside the try block
\* of execute_onboarding_workflow: control goes to its except clause
RaiseInTry(p, e, fault, fromAgent) ==
    /\ pc' = [pc EXCEPT ![p] = "fail"]
    /\ frame' = [frame EXCEPT ![p].e = e]
    /\ run' = [run EXCEPT ![p].faults = @ \cup fault,
                          ![p].execRaised = @ \/ fromAgent]

\* entering _execute_agent(agent): start_time = datetime.now()
\* input is the text of the result the controller builds the parameters
\* from (the local profiling_result or dictionary_result; none for PROFILING)
EnterAgent(f, agent, t) ==
    [f EXCEPT !.agent_name = agent, !.start_time = t, !.execution_id = 0,
              !.result = NoResult, !.duration = 0, !.outcome = "NONE",
              !.input = f.text, !.text = <<>>, !.inserted = 0]
ProcExc == [step |-> "NONE", msg |-> "procedure error"]

\* ---- rows written by the UPDATE statements --------------------------------
\* variant of the row below in which the UPDATE changes nothing
InProgressRowNotApplied(row) == row

\* _initialize_workflow: SET STATUS = 'IN_PROGRESS'
InProgressRow(row) == [row EXCEPT !.status = "IN_PROGRESS"]

\* _complete_workflow: SET STATUS, END_TIME, DURATION_SECONDS, AGENT_SEQUENCE
CompletedRow(row, t, duration, seq) ==
    [row EXCEPT !.status = "COMPLETED", !.end_time = t,
                !.duration = duration, !.agent_sequence = seq]

\* variant of the row below in which the UPDATE changes nothing
FailedRowNotPersisted(row, t, e) == row

\* _fail_workflow: SET STATUS, END_TIME, ERROR_MESSAGE
FailedRow(row, t, e) ==
    [row EXCEPT !.status = "FAILED", !.end_time = t, !.error_message = e]

\* variant of the row below that also writes the payload's error as
\* ERROR_MESSAGE
LogCompletedRowWithError(row, duration, result) ==
    [row EXCEPT !.status = "COMPLETED", !.duration = duration,
                !.output = result.status, !.error_message = result.error,
                !.updates = @ + 1]

\* _execute_agent, normal return: SET STATUS = 'COMPLETED', DURATION, OUTPUT
LogCompletedRow(row, duration, result) ==
    [row EXCEPT !.status = "COMPLETED", !.duration = duration,
                !.output = result.status, !.updates = @ + 1]

\* variant of the row below in which the UPDATE changes nothing
LogFailedRowNotApplied(row, duration, e) == row

\* _execute_agent, except clause: SET STATUS = 'FAILED', DURATION, ERROR
LogFailedRow(row, duration, e) ==
    [row EXCEPT !.status = "FAILED", !.duration = duration,
                !.error_message = e.msg, !.updates = @ + 1]

\* ---- initial state: one constructed instance per name, empty tables ------
InitBase ==
    /\ workflows = <<>>
    /\ executions = <<>>
    /\ metrics = <<>>
    /\ now = 0
    /\ pc = [p \in Procs |-> "idle"]
    /\ workflow_id = [p \in Procs |-> 0]
    /\ agent_sequence = [p \in Procs |-> <<>>]
    /\ frame = [p \in Procs |-> IdleFrame]
    /\ run = [p \in Procs |-> IdleRun]
    /\ done = <<>>
    /\ reply = NoReply

\* calls one after another; collaborators may fail, every sink is reliable
Init ==
    /\ InitBase
    /\ concurrent = FALSE
    /\ faulty = {}
    /\ latency \in Latencies
    /\ texts = {PlainText}

\* ---- execute_onboarding_workflow -------------------------------------------
\* the call begins: _initialize_workflow INSERTs the INITIATED row.  The
\* INSERT is outside the try block, so its failure leaves the call at once.
BeginWorkflow(p, wt, fresh, ok) ==
    LET f == [IdleFrame EXCEPT !.workflow_type = wt]
        r == [IdleRun EXCEPT !.rec = IF ok THEN Len(workflows) + 1 ELSE 0,
                             !.before = workflows, !.fresh = fresh,
                             !.faults = IF ok THEN {} ELSE {"wf"}]
    IN  /\ MayStart(p)
        /\ workflow_id' = IF fresh THEN [workflow_id EXCEPT ![p] = 0]
                                   ELSE workflow_id
        /\ agent_sequence' = IF fresh THEN [agent_sequence EXCEPT ![p] = <<>>]
                                      ELSE agent_sequence
        /\ IF ok
           THEN /\ workflows' = Append(workflows, NewWorkflowRow(wt, now))
                /\ pc' = [pc EXCEPT ![p] = "init_select"]
                /\ frame' = [frame EXCEPT ![p] = f]
                /\ run' = [run EXCEPT ![p] = r]
                /\ UNCHANGED done
           ELSE /\ workflows' = workflows
                /\ Finish(p, f, r, "raised", WfExc, workflows)
        /\ reply' = NoReply
        /\ UNCHANGED <<executions, metrics, now, concurrent, faulty, latency,
                       texts>>

\* sp_orchestrate_onboarding: a new AgenticOrchestrator, then the call
sp_orchestrate_onboarding(p) ==
    \E wt \in WorkflowTypes, ok \in Oks("wf") : BeginWorkflow(p, wt, TRUE, ok)

\* execute_onboarding_workflow called again on an instance that has run
execute_onboarding_workflow(p) ==
    \E wt \in WorkflowTypes, ok \in Oks("wf") :
        /\ \E i \in DOMAIN done : done[i].inst = p
        /\ BeginWorkflow(p, wt, FALSE, ok)

\* _initialize_workflow: SELECT the id of the latest INITIATED row
initialize_workflow_select(p) ==
    /\ pc[p] = "init_select"
    /\ \E ok \in Oks("wf") :
         LET id == LatestInitiated(workflows)
             r == [run[p] EXCEPT !.faults = IF ok THEN @ ELSE @ \cup {"wf"}]
         IN  IF ok /\ id # 0
             THEN /\ frame' = [frame EXCEPT ![p].wid = id]
                  /\ pc' = [pc EXCEPT ![p] = "init_update"]
                  /\ UNCHANGED <<run, done>>
             ELSE Finish(p, frame[p], r, "raised",
                         IF ok THEN NoRowExc ELSE WfExc, workflows)
    /\ UNCHANGED <<workflows, executions, metrics, now, workflow_id,
                   agent_sequence, concurrent, faulty, latency, texts, reply>>

\* variant of the dispatch below in which every type runs the profiling step
DispatchAllToProfiling(f, t) ==
    [pc |-> "log_start",
     frame |-> EnterAgent([f EXCEPT !.wf_start = t], "PROFILING", t)]

\* lines 54-76 and the head of the chosen branch: what runs after
\* _initialize_workflow returns, up to the next statement
Dispatch(f, t) ==
    IF f.workflow_type \in {"ONBOARDING", "PROFILING_ONLY"}
    THEN [pc |-> "log_start",
          frame |-> EnterAgent([f EXCEPT !.wf_start = t], "PROFILING", t)]
    ELSE IF f.workflow_type = "MAPPING_ONLY"
    THEN [pc |-> "fail", frame |-> [f EXCEPT !.e = NotImplementedError]]
    ELSE [pc |-> "fail", frame |-> [f EXCEPT !.e = ValueError]]

\* _initialize_workflow: UPDATE the row to IN_PROGRESS, then return
initialize_workflow_update(p) ==
    /\ pc[p] = "init_update"
    /\ \E ok \in Oks("wf") :
         IF ok
         THEN LET d == Dispatch(frame[p], now)
              IN  /\ workflows' = UpdateRow(workflows, frame[p].wid,
                                     InProgressRow(workflows[frame[p].wid]))
                  /\ workflow_id' = [workflow_id EXCEPT ![p] = frame[p].wid]
                  /\ pc' = [pc EXCEPT ![p] = d.pc]
                  /\ frame' = [frame EXCEPT ![p] = d.frame]
                  /\ UNCHANGED <<run, done>>
         ELSE /\ Finish(p, frame[p],
                        [run[p] EXCEPT !.faults = @ \cup {"wf"}],
                        "raised", WfExc, workflows)
              /\ UNCHANGED <<workflows, workflow_id>>
    /\ UNCHANGED <<executions, metrics, now, agent_sequence, concurrent,
                   faulty, latency, texts, reply>>
\* ---- _execute_agent --------------------------------------------------------
\* lines 289-307: the UUID query and the INSERT of the RUNNING row; neither is
\* inside a try block, so a failure leaves _execute_agent as an exception
execute_agent_log_start(p) ==
    /\ pc[p] = "log_start"
    /\ \E ok \in Oks("log") :
         IF ok
         THEN /\ executions' = Append(executions,
                    NewExecutionRow(workflow_id[p], frame[p].agent_name, now))
              /\ frame' = [frame EXCEPT
                              ![p].inserted = Len(executions) + 1]
              /\ pc' = [pc EXCEPT ![p] = "log_get_id"]
              /\ UNCHANGED run
         ELSE /\ RaiseInTry(p, LogExc, {"log"}, TRUE)
              /\ UNCHANGED executions
    /\ UNCHANGED <<workflows, metrics, now, workflow_id, agent_sequence, done,
                   concurrent, faulty, latency, texts, reply>>

\* lines 310-319: read the execution id back by workflow id and agent name
execute_agent_get_execution_id(p) ==
    /\ pc[p] = "log_get_id"
    /\ \E ok \in Oks("log") :
         LET id == LatestExecution(executions, workflow_id[p],
                                   frame[p].agent_name)
         IN  IF ok /\ id # 0
             THEN /\ frame' = [frame EXCEPT ![p].execution_id = id]
                  /\ pc' = [pc EXCEPT ![p] = "call_agent"]
                  /\ UNCHANGED run
             ELSE RaiseInTry(p, IF ok THEN NoRowExc ELSE LogExc,
                             IF ok THEN {} ELSE {"log"}, TRUE)
    /\ UNCHANGED <<workflows, executions, metrics, now, workflow_id,
                   agent_sequence, done, concurrent, faulty, latency,
                   texts, reply>>

\* lines 321-334 and 354-356: the collaborator is called and returns a
\* payload, returns a payload with status FAILED, or raises; the clock
\* advances while it runs, and the duration is measured
call_agent_procedure(p) ==
    /\ pc[p] = "call_agent"
    /\ \E o \in CollabOutcomes, x \in texts :
         LET loaded == Loaded(frame[p].agent_name, frame[p].input)
             returned == IF o = "OK" THEN x ELSE <<>>
         IN
         \* a CALL statement that does not compile raises, and so does the
         \* wrapper whose json.loads fails; a result that carries no text
         \* is one result, whatever x is
         /\ ~loaded.ok => o = "RAISE"
         /\ o # "OK" => x = PlainText
         /\ now' = now + latency
         /\ run' = [run EXCEPT ![p].calls =
                       Append(@, [agent |-> frame[p].agent_name,
                                  outcome |-> o,
                                  loaded |-> loaded,
                                  returned |-> returned])]
         /\ frame' = [frame EXCEPT
               ![p].text = returned,
               ![p].duration = (now + latency) - frame[p].start_time,
               ![p].result = IF o = "OK" THEN OkPayload
                             ELSE IF o = "FAILED_PAYLOAD" THEN FailedPayload
                             ELSE NoResult,
               ![p].e = IF o = "RAISE" THEN ProcExc ELSE NoExc]
         /\ pc' = [pc EXCEPT ![p] =
                     IF o = "RAISE" THEN "log_error" ELSE "log_complete"]
    /\ UNCHANGED <<workflows, executions, metrics, workflow_id,
                   agent_sequence, done, concurrent, faulty, latency,
                   texts, reply>>

\* lines 336-347: UPDATE the row to COMPLETED.  The statement is inside the
\* try block: its failure is caught by the except clause at line 354
execute_agent_log_complete(p) ==
    /\ pc[p] = "log_complete"
    /\ \E ok \in Oks("log") :
         IF ok /\ OutputStored(frame[p].text)
         THEN /\ executions' = UpdateRow(executions, frame[p].execution_id,
                    LogCompletedRow(executions[frame[p].execution_id],
                                    frame[p].duration, frame[p].result))
              /\ frame' = [frame EXCEPT ![p].outcome = "SUCCESS"]
              /\ pc' = [pc EXCEPT ![p] = "metrics"]
              /\ UNCHANGED run
         ELSE /\ frame' = [frame EXCEPT ![p].e = LogExc,
                       ![p].duration = now - frame[p].start_time]
              /\ pc' = [pc EXCEPT ![p] = "log_error"]
              /\ run' = [run EXCEPT ![p].faults = @ \cup {"log"}]
              /\ UNCHANGED executions
    /\ UNCHANGED <<workflows, metrics, now, workflow_id, agent_sequence, done,
                   concurrent, faulty, latency, texts, reply>>

\* lines 358-369: UPDATE the row to FAILED.  The statement is inside the
\* except clause: its failure leaves _execute_agent as an exception
execute_agent_log_error(p) ==
    /\ pc[p] = "log_error"
    /\ \E ok \in Oks("log") :
         IF ok
         THEN /\ executions' = UpdateRow(executions, frame[p].execution_id,
                    LogFailedRow(executions[frame[p].execution_id],
                                 frame[p].duration, frame[p].e))
              /\ frame' = [frame EXCEPT ![p].outcome = "FAILURE",
                                        ![p].result = FailedResult(frame[p].e)]
              /\ pc' = [pc EXCEPT ![p] = "metrics"]
              /\ UNCHANGED run
         ELSE /\ RaiseInTry(p, LogExc, {"log"}, TRUE)
              /\ UNCHANGED executions
    /\ UNCHANGED <<workflows, metrics, now, workflow_id, agent_sequence, done,
                   concurrent, faulty, latency, texts, reply>>

\* variant of the continuation below without the checks of the result status
AfterAgentIgnoringStatus(f, seq, t) ==
    LET agent == f.agent_name
        g == [f EXCEPT !.agents_executed = Append(@, agent)]
        s == Append(seq, agent)
    IN  IF f.workflow_type = "PROFILING_ONLY"
        THEN [pc |-> "complete", seq |-> s,
              frame |-> [g EXCEPT !.total_duration = t - f.wf_start]]
        ELSE IF agent = "PROFILING"
        THEN [pc |-> "log_start", seq |-> s,
              frame |-> EnterAgent(g, "DICTIONARY", t)]
        ELSE IF agent = "DICTIONARY"
        THEN [pc |-> "log_start", seq |-> s,
              frame |-> EnterAgent(g, "MAPPING", t)]
        ELSE [pc |-> "summary", seq |-> s,
              frame |-> [g EXCEPT !.total_duration = t - f.wf_start]]

\* what the controller does with the result _execute_agent returned, up to
\* its next statement: _execute_full_onboarding lines 180-233,
\* _execute_profiling_only lines 257-264
AfterAgent(f, seq, t) ==
    LET agent == f.agent_name
        g == [f EXCEPT !.agents_executed = Append(@, agent)]
        s == Append(seq, agent)
    IN  IF f.workflow_type = "PROFILING_ONLY"
        THEN [pc |-> "complete", seq |-> s,
              frame |-> [g EXCEPT !.total_duration = t - f.wf_start]]
        ELSE IF f.result.status = "FAILED"
        THEN [pc |-> "fail", seq |-> s,
              frame |-> [g EXCEPT !.e = AgentFailed(agent, f.result)]]
        ELSE IF agent = "PROFILING"
        THEN [pc |-> "log_start", seq |-> s,
              frame |-> EnterAgent(g, "DICTIONARY", t)]
        ELSE IF agent = "DICTIONARY"
        THEN [pc |-> "log_start", seq |-> s,
              frame |-> EnterAgent(g, "MAPPING", t)]
        ELSE [pc |-> "summary", seq |-> s,
              frame |-> [g EXCEPT !.total_duration = t - f.wf_start]]

\* variant of the action below in which a failure of the metrics INSERT
\* leaves _execute_agent as an exception
record_agent_metrics_raising(p) ==
    /\ pc[p] = "metrics"
    /\ \E ok \in Oks("metrics") :
         LET a == AfterAgent(frame[p], agent_sequence[p], now)
         IN  IF ok
             THEN /\ metrics' = Append(metrics,
                                  [agent_name |-> frame[p].agent_name,
                                   execution_id |-> frame[p].execution_id,
                                   outcome |-> frame[p].outcome])
                  /\ run' = [run EXCEPT
                        ![p].results = Append(@, frame[p].result.status)]
                  /\ agent_sequence' = [agent_sequence EXCEPT ![p] = a.seq]
                  /\ frame' = [frame EXCEPT ![p] = a.frame]
                  /\ pc' = [pc EXCEPT ![p] = a.pc]
             ELSE /\ RaiseInTry(p, ProcExc, {"metrics"}, TRUE)
                  /\ UNCHANGED <<metrics, agent_sequence>>
    /\ UNCHANGED <<workflows, executions, now, workflow_id, done, concurrent,
                   faulty, latency, texts, reply>>

\* _record_agent_metrics (failure swallowed), then _execute_agent returns its
\* result and the controller goes on
record_agent_metrics(p) ==
    /\ pc[p] = "metrics"
    /\ \E ok \in Oks("metrics") :
         LET a == AfterAgent(frame[p], agent_sequence[p], now)
         IN  /\ metrics' = IF ok
                           THEN Append(metrics,
                                  [agent_name |-> frame[p].agent_name,
                                   execution_id |-> frame[p].execution_id,
                                   outcome |-> frame[p].outcome])
                           ELSE metrics
             /\ run' = [run EXCEPT
                   ![p].results = Append(@, frame[p].result.status),
                   ![p].faults = IF ok THEN @ ELSE @ \cup {"metrics"}]
             /\ agent_sequence' = [agent_sequence EXCEPT ![p] = a.seq]
             /\ frame' = [frame EXCEPT ![p] = a.frame]
             /\ pc' = [pc EXCEPT ![p] = a.pc]
    /\ UNCHANGED <<workflows, executions, now, workflow_id, done, concurrent,
                   faulty, latency, texts, reply>>

\* variant of the action below in which a failure of the AI call leaves
\* _generate_workflow_summary as an exception
generate_workflow_summary_raising(p) ==
    /\ pc[p] = "summary"
    /\ \E ok \in Oks("summary") :
         IF ok
         THEN /\ frame' = [frame EXCEPT
                    ![p].summary = [kind |-> "AI", agents |-> 0]]
              /\ pc' = [pc EXCEPT ![p] = "complete"]
              /\ UNCHANGED run
         ELSE RaiseInTry(p, ProcExc, {"summary"}, FALSE)
    /\ UNCHANGED <<workflows, executions, metrics, now, workflow_id,
                   agent_sequence, done, concurrent, faulty, latency,
                   texts, reply>>

\* _generate_workflow_summary: the AI call, or the templated fallback
generate_workflow_summary(p) ==
    /\ pc[p] = "summary"
    /\ \E ok \in Oks("summary") :
         /\ frame' = [frame EXCEPT ![p].summary =
               IF ok THEN [kind |-> "AI", agents |-> 0]
               ELSE [kind |-> "TEMPLATE",
                     agents |-> Len(frame[p].agents_executed)]]
         /\ run' = [run EXCEPT
               ![p].faults = IF ok THEN @ ELSE @ \cup {"summary"}]
    /\ pc' = [pc EXCEPT ![p] = "complete"]
    /\ UNCHANGED <<workflows, executions, metrics, now, workflow_id,
                   agent_sequence, done, concurrent, faulty, latency,
                   texts, reply>>

\* _complete_workflow, then return results (lines 79-86)
complete_workflow(p) ==
    /\ pc[p] = "complete"
    /\ \E ok \in Oks("wf") \cup Oks("complete") :
         IF ok
         THEN LET wf == UpdateRow(workflows, workflow_id[p],
                          CompletedRow(workflows[workflow_id[p]], now,
                                       frame[p].total_duration,
                                       agent_sequence[p]))
              IN  /\ workflows' = wf
                  /\ Finish(p, frame[p], run[p], "returned", NoExc, wf)
         ELSE /\ RaiseInTry(p, WfExc, {"wf", "complete"}, FALSE)
              /\ UNCHANGED <<workflows, done>>
    /\ UNCHANGED <<executions, metrics, now, workflow_id, agent_sequence,
                   concurrent, faulty, latency, texts, reply>>

\* the except clause (lines 88-97): _fail_workflow, then raise
fail_workflow(p) ==
    /\ pc[p] = "fail"
    /\ \E ok \in Oks("wf") :
         IF ok
         THEN LET wf == UpdateRow(workflows, workflow_id[p],
                          FailedRow(workflows[workflow_id[p]], now,
                                    frame[p].e))
              IN  /\ workflows' = wf
                  /\ Finish(p, frame[p], run[p], "raised", frame[p].e, wf)
         ELSE /\ workflows' = workflows
              /\ Finish(p, frame[p],
                        [run[p] EXCEPT !.faults = @ \cup {"wf"}],
                        "raised", WfExc, workflows)
    /\ UNCHANGED <<executions, metrics, now, workflow_id, agent_sequence,
                   concurrent, faulty, latency, texts, reply>>

\* ---- the query operations --------------------------------------------------
\* a workflow_id argument is the id of a row, or an id no row has, followed
\* by nothing or by text with single quotes
QueryIds == {1, 2}
QueryTails == {<<>>, <<"SQ">>}
Limits == {10}

\* the query operations are called before and between the calls of
\* execute_onboarding_workflow of a behaviour
QueryAllowed == Running = {} /\ Len(done) < MaxRuns

\* what get_workflow_status gives its caller when it selects no row, and
\* when its SELECT raises
NotFound == <<[workflow_id |-> 0, status |-> "Workflow not found"]>>
Raised == <<[workflow_id |-> 0, status |-> "RAISED"]>>

\* SELECT ... WHERE WORKFLOW_ID = '{workflow_id}': the argument is put between
\* the quotes as it is.  The rows selected, or Malformed when the statement
\* does not compile
SelectWorkflow(wf, id, tail) ==
    LET r == SqlLiteral(tail)
    IN  IF ~r.ok THEN Malformed
        ELSE Read(IF r.text = <<>> /\ id \in DOMAIN wf
                  THEN <<[workflow_id |-> id, status |-> wf[id].status]>>
                  ELSE <<>>)

\* SELECT ... ORDER BY START_TIME DESC LIMIT n
RECURSIVE LatestFirst(_, _)
LatestFirst(wf, n) ==
    IF n = 0 \/ wf = <<>> THEN <<>>
    ELSE <<[workflow_id |-> Len(wf), status |-> wf[Len(wf)].status]>>
             \o LatestFirst(SubSeq(wf, 1, Len(wf) - 1), n - 1)

\* get_workflow_status(session, workflow_id): one SELECT; the row as a dict,
\* {'error': 'Workflow not found'} when no row is selected; an exception of
\* the SELECT leaves the function
get_workflow_status ==
    /\ QueryAllowed
    /\ \E id \in QueryIds, tail \in QueryTails :
         LET r == SelectWorkflow(workflows, id, tail)
         IN  reply' = [op |-> "get_workflow_status", arg |-> id,
                       tail |-> tail,
                       result |-> IF ~r.ok THEN Raised
                                  ELSE IF r.text = <<>> THEN NotFound
                                  ELSE r.text]
    /\ UNCHANGED <<workflows, executions, metrics, now, pc, workflow_id,
                   agent_sequence, frame, run, done, concurrent, faulty,
                   latency, texts>>

\* list_recent_workflows(session, limit): one SELECT, the rows as dicts
list_recent_workflows ==
    /\ QueryAllowed
    /\ \E n \in Limits :
         reply' = [op |-> "list_recent_workflows", arg |-> n, tail |-> <<>>,
                   result |-> LatestFirst(workflows, n)]
    /\ UNCHANGED <<workflows, executions, metrics, now, pc, workflow_id,
                   agent_sequence, frame, run, done, concurrent, faulty,
                   latency, texts>>

\* ---- specification -----------------------------------------------------------
Next ==
    \/ \E p \in Procs :
          \/ sp_orchestrate_onboarding(p)
          \/ execute_onboarding_workflow(p)
          \/ initialize_workflow_select(p)
          \/ initialize_workflow_update(p)
          \/ execute_agent_log_start(p)
          \/ execute_agent_get_execution_id(p)
          \/ call_agent_procedure(p)
          \/ execute_agent_log_complete(p)
          \/ execute_agent_log_error(p)
          \/ record_agent_metrics(p)
          \/ generate_workflow_summary(p)
          \/ complete_workflow(p)
          \/ fail_workflow(p)
    \/ get_workflow_status
    \/ list_recent_workflows

Spec == Init /\ [][Next]_vars

\* as Spec, and statements on the execution log may fail
InitLog ==
    /\ InitBase
    /\ concurrent = FALSE
    /\ faulty = {"log"}
    /\ latency \in Latencies
    /\ texts = {PlainText}

SpecLog == InitLog /\ [][Next]_vars

\* as Spec with every collaborator call taking one clock unit, and the
\* INSERT into AGENT_METRICS may fail
InitMetrics ==
    /\ InitBase
    /\ concurrent = FALSE
    /\ faulty = {"metrics"}
    /\ latency = 1
    /\ texts = {PlainText}

SpecMetrics == InitMetrics /\ [][Next]_vars

\* as Spec, and the AI call of _generate_workflow_summary may fail
InitSummary ==
    /\ InitBase
    /\ concurrent = FALSE
    /\ faulty = {"summary"}
    /\ latency \in Latencies
    /\ texts = {PlainText}

SpecSummary == InitSummary /\ [][Next]_vars

\* as Spec with every collaborator call taking one clock unit, and the
\* statements on WORKFLOW_EXECUTIONS may fail
InitWf ==
    /\ InitBase
    /\ concurrent = FALSE
    /\ faulty = {"wf"}
    /\ latency = 1
    /\ texts = {PlainText}

SpecWf == InitWf /\ [][Next]_vars

\* as Spec with collaborator calls that take no time, and the successful
\* collaborators return the plain text or one other text
InitPipe ==
    /\ InitBase
    /\ concurrent = FALSE
    /\ faulty = {}
    /\ latency = 0
    /\ \E x \in Payloads : texts = {PlainText, x}

SpecPipe == InitPipe /\ [][Next]_vars

\* as Spec with every collaborator call taking one clock unit, and the
\* UPDATE of _complete_workflow may fail
InitComplete ==
    /\ InitBase
    /\ concurrent = FALSE
    /\ faulty = {"complete"}
    /\ latency = 1
    /\ texts = {PlainText}

SpecComplete == InitComplete /\ [][Next]_vars

\* calls of two instances may overlap; every sink is reliable
InitConc ==
    /\ InitBase
    /\ concurrent = TRUE
    /\ faulty = {}
    /\ latency = 0
    /\ texts = {PlainText}

SpecConc == InitConc /\ [][Next]_vars
\* ---- properties ----------------------------------------------------------------
\* the sequence of agents a workflow type runs, in the order of the calls of
\* _execute_agent in its branch
Plan(wt) ==
    IF wt = "ONBOARDING" THEN <<"PROFILING", "DICTIONARY", "MAPPING">>
    ELSE IF wt = "PROFILING_ONLY" THEN <<"PROFILING">>
    ELSE <<>>

\* the AGENT_EXECUTION_LOG rows of one workflow, oldest first
EntriesOf(wid) == SelectSeq(executions, LAMBDA x : x.workflow_id = wid)

\* the status of the WORKFLOW_EXECUTIONS row a finished call worked on
StatusOf(r) == IF r.wid = 0 THEN "NONE" ELSE workflows[r.wid].status

\* C1: in every finished call, a collaborator invocation that failed (it
\* raised, or its payload has status FAILED) is the last invocation of the
\* call, and the call's workflow row has status FAILED.
C1_FailFast ==
    \A i \in DOMAIN done :
        LET r == done[i]
        IN  \A k \in DOMAIN r.calls :
                r.calls[k].outcome \in FailedOutcomes
                    => /\ Len(r.calls) = k
                       /\ StatusOf(r) = "FAILED"

\* C2: every COMPLETED row of a supported workflow type carries as
\* AGENT_SEQUENCE exactly the plan of its type.
C2_CompletedSequenceIsPlan ==
    \A i \in DOMAIN workflows :
        (workflows[i].status = "COMPLETED"
           /\ workflows[i].workflow_type \in SupportedTypes)
            => workflows[i].agent_sequence = Plan(workflows[i].workflow_type)

\* C3: a call with an unknown workflow type raises the unknown-type error and
\* leaves WORKFLOW_EXECUTIONS as it was: it inserts no row and changes none.
C3_UnknownTypeCreatesNoRecord ==
    \A i \in DOMAIN done :
        done[i].wtype \notin KnownTypes
            => /\ done[i].outcome = "raised"
               /\ done[i].error = ValueError
               /\ done[i].rec = 0
               /\ ~done[i].changed

\* C4: no invocation of _execute_agent leaves by an exception: each one
\* returns a result, and the result of an invocation whose collaborator
\* raised has status FAILED.
C4_ExecuteAgentNeverRaises ==
    /\ \A p \in Procs : ~run[p].execRaised
    /\ \A i \in DOMAIN done :
          LET r == done[i]
          IN  /\ ~r.execRaised
              /\ \A k \in DOMAIN r.calls :
                     /\ k \in DOMAIN r.results
                     /\ r.calls[k].outcome = "RAISE"
                            => r.results[k] = "FAILED"

\* C5: a call leaves its workflow row COMPLETED only if every step of the
\* plan of its type ran and returned a result that is not FAILED.
C5_CompletedOnlyIfAllSucceeded ==
    \A i \in DOMAIN done :
        LET r == done[i]
        IN  StatusOf(r) = "COMPLETED"
                => /\ Len(r.results) = Len(Plan(r.wtype))
                   /\ \A k \in DOMAIN r.results : r.results[k] = "OK"

C7_LogFailuresDoNotChangeOutcome ==
    \A i \in DOMAIN done :
        LET r == done[i]
        IN  r.wtype \in SupportedTypes
                => /\ ~r.execRaised
                   /\ Len(r.results) = Len(r.calls)
                   /\ \A k \in DOMAIN r.calls :
                          k \in DOMAIN r.results
                              => (r.results[k] = "FAILED"
                                    <=> r.calls[k].outcome \in FailedOutcomes)
                   /\ StatusOf(r) = "FAILED"
                          => \E k \in DOMAIN r.calls :
                                 r.calls[k].outcome \in FailedOutcomes

\* C8: when a call ends FAILED because its k-th step failed, the
\* AGENT_SEQUENCE of its row is the first k steps of the plan.
C8_FailedSequenceIsPrefix ==
    \A i \in DOMAIN done :
        LET r == done[i]
            k == Len(r.calls)
        IN  (/\ StatusOf(r) = "FAILED"
             /\ k >= 1
             /\ r.calls[k].outcome \in FailedOutcomes)
                => workflows[r.wid].agent_sequence
                       = SubSeq(Plan(r.wtype), 1, k)

\* C9: for the terminal row of a finished call of a supported type and its log
\* entries: the row is FAILED iff some entry is FAILED and it is the last
\* one; the row is COMPLETED iff there is one COMPLETED entry per planned
\* step.
C9_StatusMatchesLog ==
    \A i \in DOMAIN done :
        LET r == done[i]
            E == EntriesOf(r.wid)
        IN  (r.wtype \in SupportedTypes /\ StatusOf(r) \in Terminal)
                => /\ StatusOf(r) = "FAILED"
                        <=> (E # <<>> /\ E[Len(E)].status = "FAILED")
                   /\ StatusOf(r) = "COMPLETED"
                        <=> /\ Len(E) = Len(Plan(r.wtype))
                            /\ \A j \in DOMAIN E :
                                   /\ E[j].status = "COMPLETED"
                                   /\ E[j].agent_name = Plan(r.wtype)[j]

C11_OwnRecord ==
    /\ \A p \in Procs :
          pc[p] \notin {"idle", "init_select"} => frame[p].wid = run[p].rec
    /\ \A i \in DOMAIN done :
          done[i].wid # 0 => done[i].wid = done[i].rec
    /\ \A i, j \in DOMAIN done :
          (i # j /\ done[i].wid # 0) => done[i].wid # done[j].wid

\* the invocations of _execute_agent a finished call made: those that
\* returned a result and the one, if any, that left by an exception
Invocations(r) == Len(r.results) + (IF r.execRaised THEN 1 ELSE 0)

MetricsOf(wid) ==
    SelectSeq(metrics,
              LAMBDA m : /\ m.execution_id \in DOMAIN executions
                         /\ executions[m.execution_id].workflow_id = wid)

\* C13: a MAPPING_ONLY call never reaches a log, collaborator or metrics
\* statement; when it has finished it has raised the not-implemented error,
\* it has invoked no collaborator, and no log entry and no metrics entry
\* exists for its workflow.
C13_MappingOnlyFailsFast ==
    /\ \A p \in Procs :
          frame[p].workflow_type = "MAPPING_ONLY"
              => /\ pc[p] \in {"init_select", "init_update", "fail"}
                 /\ run[p].calls = <<>>
    /\ \A i \in DOMAIN done :
          LET r == done[i]
          IN  r.wtype = "MAPPING_ONLY"
                  => /\ r.outcome = "raised"
                     /\ r.error = NotImplementedError
                     /\ r.calls = <<>>
                     /\ r.results = <<>>
                     /\ EntriesOf(r.wid) = <<>>
                     /\ MetricsOf(r.wid) = <<>>

\* a MAPPING_ONLY call has raised after an earlier call wrote log and metrics
C13_Witness ==
    /\ Len(done) = 2
    /\ done[1].calls # <<>>
    /\ executions # <<>>
    /\ metrics # <<>>
    /\ done[2].wtype = "MAPPING_ONLY"
    /\ done[2].wid = 2
    /\ done[2].error = NotImplementedError

\* C14: two finished calls of the same workflow type whose collaborators did
\* the same have the same step results, end the same way (returned or raised,
\* with the same error) and leave their rows in the same status, whichever of
\* their metrics writes failed.
C14_MetricsFailureSwallowed ==
    \A i, j \in DOMAIN done :
        (done[i].wtype = done[j].wtype /\ done[i].calls = done[j].calls)
            => /\ done[i].results = done[j].results
               /\ done[i].outcome = done[j].outcome
               /\ done[i].error = done[j].error
               /\ StatusOf(done[i]) = StatusOf(done[j])

\* two ONBOARDING calls with the same collaborator outcomes: every metrics
\* write of the first succeeded, every metrics write of the second failed
C14_Witness ==
    /\ Len(done) = 2
    /\ done[1].wtype = "ONBOARDING"
    /\ done[2].wtype = "ONBOARDING"
    /\ Len(done[1].calls) = 3
    /\ done[1].calls = done[2].calls
    /\ done[1].faults = {}
    /\ Len(MetricsOf(done[1].wid)) = 3
    /\ done[2].faults = {"metrics"}
    /\ MetricsOf(done[2].wid) = <<>>
    /\ StatusOf(done[2]) = StatusOf(done[1])

\* C15: a finished call whose AI summary call failed had every planned step
\* succeed, has returned, has left its row COMPLETED, and its summary is the
\* templated text for the number of agents it executed.
C15_SummaryFallback ==
    \A i \in DOMAIN done :
        LET r == done[i]
        IN  "summary" \in r.faults
                => /\ Len(r.calls) = Len(Plan(r.wtype))
                   /\ \A k \in DOMAIN r.calls : r.calls[k].outcome = "OK"
                   /\ r.outcome = "returned"
                   /\ StatusOf(r) = "COMPLETED"
                   /\ r.summary = [kind |-> "TEMPLATE",
                                   agents |-> Len(r.calls)]

\* a call on a reused instance ran its three steps and the AI call failed
C15_Witness ==
    \E i \in DOMAIN done :
        /\ done[i].wtype = "ONBOARDING"
        /\ ~done[i].fresh
        /\ "summary" \in done[i].faults
        /\ done[i].summary = [kind |-> "TEMPLATE", agents |-> 3]
        /\ StatusOf(done[i]) = "COMPLETED"

\* SUM(DURATION_SECONDS) over log entries; a NULL duration adds nothing
RECURSIVE SumDurations(_)
SumDurations(E) ==
    IF E = <<>> THEN 0
    ELSE (IF E[1].duration < 0 THEN 0 ELSE E[1].duration)
             + SumDurations(Tail(E))

\* C16: every COMPLETED or FAILED row has a duration, and it is at least the
\* sum of the durations of the log entries of its workflow.
C16_DurationCoversSteps ==
    \A i \in DOMAIN workflows :
        workflows[i].status \in Terminal
            => /\ workflows[i].duration # -1
               /\ workflows[i].duration >= SumDurations(EntriesOf(i))

\* C17: a call that has returned or raised takes no further step, so the row
\* it inserted must be COMPLETED or FAILED by then: no finished call leaves
\* its own row INITIATED or IN_PROGRESS.
C17_FinishedRunIsTerminal ==
    \A i \in DOMAIN done :
        done[i].rec # 0 => workflows[done[i].rec].status \in Terminal

\* the error message of a collaborator invocation that failed: str(e) of the
\* exception it raised, or the 'error' of its FAILED payload
StepError(outcome) ==
    IF outcome = "RAISE" THEN ProcExc.msg ELSE FailedPayload.error

\* C18: when a collaborator invocation of a finished call of a supported type
\* failed, the call has raised an error that carries the name of that step and
\* its error message, and the ERROR_MESSAGE of its FAILED row is that error.
C18_ErrorNamesFailingStep ==
    \A i \in DOMAIN done :
        LET r == done[i]
        IN  \A k \in DOMAIN r.calls :
                (r.wtype \in SupportedTypes
                   /\ r.calls[k].outcome \in FailedOutcomes)
                    => /\ r.outcome = "raised"
                       /\ r.error = [step |-> r.calls[k].agent,
                                     msg |-> StepError(r.calls[k].outcome)]
                       /\ StatusOf(r) = "FAILED"
                       /\ workflows[r.wid].error_message = r.error

\* C19: a COMPLETED or FAILED row has END_TIME and DURATION_SECONDS set, an
\* INITIATED or IN_PROGRESS row has neither.
C19_TerminalHasEndAndDuration ==
    \A i \in DOMAIN workflows :
        IF workflows[i].status \in Terminal
        THEN workflows[i].end_time # -1 /\ workflows[i].duration # -1
        ELSE workflows[i].end_time = -1 /\ workflows[i].duration = -1

InPlanOrder(wt, calls) ==
    /\ Len(calls) <= Len(Plan(wt))
    /\ \A k \in DOMAIN calls :
          /\ calls[k].agent = Plan(wt)[k]
          /\ k < Len(calls) => calls[k].outcome = "OK"

\* C21: in every ONBOARDING call, running or finished, the collaborators
\* invoked so far are PROFILING, DICTIONARY, MAPPING in this order without a
\* gap, and a collaborator is invoked only after the one before it has
\* returned successfully; while a collaborator runs, the call is at no other
\* statement.
C21_PlanOrder ==
    /\ \A p \in Procs :
          frame[p].workflow_type = "ONBOARDING"
              => /\ InPlanOrder("ONBOARDING", run[p].calls)
                 /\ pc[p] = "call_agent"
                        => frame[p].agent_name
                               = Plan("ONBOARDING")[Len(run[p].calls) + 1]
    /\ \A i \in DOMAIN done :
          done[i].wtype = "ONBOARDING"
              => InPlanOrder("ONBOARDING", done[i].calls)

\* an ONBOARDING call on a reused instance is about to invoke MAPPING
C21_Witness ==
    \E p \in Procs :
        /\ frame[p].workflow_type = "ONBOARDING"
        /\ ~run[p].fresh
        /\ pc[p] = "call_agent"
        /\ frame[p].agent_name = "MAPPING"
        /\ Len(run[p].calls) = 2

\* no collaborator appears twice among the invocations of a call
AtMostOnce(calls) ==
    \A k, l \in DOMAIN calls : calls[k].agent = calls[l].agent => k = l

\* C22: in every call, running or finished, each collaborator has been
\* invoked at most once; and a finished call one of whose collaborators failed
\* has left its row FAILED.
C22_NoRetries ==
    /\ \A p \in Procs : AtMostOnce(run[p].calls)
    /\ \A i \in DOMAIN done :
          LET r == done[i]
          IN  /\ AtMostOnce(r.calls)
              /\ (\E k \in DOMAIN r.calls :
                      r.calls[k].outcome \in FailedOutcomes)
                     => StatusOf(r) = "FAILED"

\* C23: in every ONBOARDING call, running or finished, what the wrapper of
\* DICTIONARY works on is the text of the result the PROFILING collaborator
\* of this call returned, and what the wrapper of MAPPING works on is the
\* text of the result its DICTIONARY collaborator returned.
C23_PayloadPiped ==
    /\ \A p \in Procs :
          \A k \in DOMAIN run[p].calls :
              k >= 2 => run[p].calls[k].loaded
                            = Read(run[p].calls[k - 1].returned)
    /\ \A i \in DOMAIN done :
          \A k \in DOMAIN done[i].calls :
              k >= 2 => done[i].calls[k].loaded
                            = Read(done[i].calls[k - 1].returned)

\* the log entries of the invocations of _execute_agent that have returned
\* match what their collaborators did: FAILED with the error text when the
\* collaborator raised, COMPLETED with the output otherwise
LogMatches(wid, calls, results) ==
    LET E == EntriesOf(wid)
    IN  \A k \in DOMAIN results :
            /\ k \in DOMAIN E
            /\ k \in DOMAIN calls
            /\ E[k].agent_name = calls[k].agent
            /\ IF calls[k].outcome = "RAISE"
               THEN /\ E[k].status = "FAILED"
                    /\ E[k].error_message = ProcExc.msg
               ELSE /\ E[k].status = "COMPLETED"
                    /\ E[k].output = (IF calls[k].outcome = "OK"
                                      THEN OkPayload.status
                                      ELSE FailedPayload.status)
                    /\ E[k].error_message = "NULL"

\* C24: while a collaborator is being invoked, the entry of the invocation
\* exists with status RUNNING; and every invocation that has returned, in a
\* running or a finished call, has left its entry COMPLETED with the output
\* after a normal return and FAILED with the error text after an exception.
C24_LogEntryLifecycle ==
    /\ \A p \in Procs :
          pc[p] = "call_agent"
              => /\ frame[p].execution_id \in DOMAIN executions
                 /\ executions[frame[p].execution_id].status = "RUNNING"
                 /\ executions[frame[p].execution_id].agent_name
                        = frame[p].agent_name
    /\ \A p \in Procs :
          pc[p] \notin {"idle", "init_select", "init_update"}
              => LogMatches(workflow_id[p], run[p].calls, run[p].results)
    /\ \A i \in DOMAIN done :
          LogMatches(done[i].wid, done[i].calls, done[i].results)

\* the pc values at which a call is inside _execute_agent
InStep ==
    {"log_start", "log_get_id", "call_agent", "log_complete", "log_error",
     "metrics"}

\* the status changes a WORKFLOW_EXECUTIONS row may undergo
AllowedTransitions ==
    {<<"INITIATED", "IN_PROGRESS">>, <<"IN_PROGRESS", "COMPLETED">>,
     <<"IN_PROGRESS", "FAILED">>}

FirstFailure(calls) ==
    LET S == {k \in DOMAIN calls : calls[k].outcome \in FailedOutcomes}
    IN  IF S = {} THEN 0 ELSE CHOOSE k \in S : \A l \in S : k <= l

\* C26: two finished calls of the same supported type whose first failing
\* collaborator is the same step end the same way, whether that collaborator
\* raised or returned a FAILED payload: same row status, same return or raise
\* to the caller, same steps attempted, and the failing step is the last one
\* invoked.
C26_UniformFailure ==
    \A i, j \in DOMAIN done :
        LET r == done[i]
            q == done[j]
            k == FirstFailure(r.calls)
        IN  (/\ r.wtype \in SupportedTypes
             /\ r.wtype = q.wtype
             /\ k # 0
             /\ k = FirstFailure(q.calls))
                => /\ StatusOf(r) = StatusOf(q)
                   /\ r.outcome = q.outcome
                   /\ Len(r.calls) = k
                   /\ Len(q.calls) = k
                   /\ Len(r.results) = Len(q.results)

\* two ONBOARDING calls failed at DICTIONARY, one by an exception and one by
\* a FAILED payload
C26_Witness ==
    /\ Len(done) = 2
    /\ done[1].wtype = "ONBOARDING"
    /\ done[2].wtype = "ONBOARDING"
    /\ Len(done[1].calls) = 2
    /\ Len(done[2].calls) = 2
    /\ done[1].calls[2].outcome = "RAISE"
    /\ done[2].calls[2].outcome = "FAILED_PAYLOAD"
    /\ StatusOf(done[1]) = "FAILED"
    /\ StatusOf(done[2]) = "FAILED"

\* C27: a step of get_workflow_status or list_recent_workflows leaves the
\* three tables as they are, and get_workflow_status called with a
\* workflow_id that no row has gives {'error': 'Workflow not found'}.
C27_QueriesReadOnly ==
    [][(reply' # reply /\ reply' # NoReply)
          => /\ workflows' = workflows
             /\ executions' = executions
             /\ metrics' = metrics
             /\ (/\ reply'.op = "get_workflow_status"
                 /\ ~(reply'.tail = <<>> /\ reply'.arg \in DOMAIN workflows))
                    => reply'.result = NotFound]_vars

\* the steps a call attempted, in order
Attempted(calls) == [k \in DOMAIN calls |-> calls[k].agent]

\* C28: the AGENT_SEQUENCE of the COMPLETED row of a finished call is the
\* sequence of the steps that call attempted, also when the instance has run
\* other calls before.
C28_SequenceOfThisRun ==
    \A i \in DOMAIN done :
        StatusOf(done[i]) = "COMPLETED"
            => workflows[done[i].wid].agent_sequence
                   = Attempted(done[i].calls)

\* C29: a finished call has returned its results only if its row is
\* COMPLETED; and a call whose COMPLETED update failed has raised the error
\* of that update and has left its row FAILED with that error.
C29_ReturnOnlyIfCompleted ==
    \A i \in DOMAIN done :
        LET r == done[i]
        IN  /\ r.outcome = "returned" => StatusOf(r) = "COMPLETED"
            /\ "complete" \in r.faults
                   => /\ r.outcome = "raised"
                      /\ r.error = WfExc
                      /\ StatusOf(r) = "FAILED"
                      /\ workflows[r.wid].error_message = WfExc

\* the pc values at which an invocation of _execute_agent holds the execution
\* id it read back
HoldsExecutionId == {"call_agent", "log_complete", "log_error", "metrics"}

\* C30: also when calls overlap, the execution id an invocation of
\* _execute_agent reads back is that of the entry the same invocation
\* inserted, no entry receives more than one UPDATE, and once every call is
\* over no entry is RUNNING.
C30_UpdatesOwnEntry ==
    /\ \A p \in Procs :
          pc[p] \in HoldsExecutionId
              => frame[p].execution_id = frame[p].inserted
    /\ \A j \in DOMAIN executions : executions[j].updates <= 1
    /\ Running = {}
          => \A j \in DOMAIN executions : executions[j].status # "RUNNING"
====
